---- MODULE Spec2Model ----
(***************************************************************************)
(* Model of smithay's text-input registry                                  *)
(* (src/wayland/text_input/text_input_handle.rs) and of the input-method   *)
(* popup surface (src/wayland/input_method/input_method_popup_surface.rs). *)
(***************************************************************************)
EXTENDS Integers, Sequences, FiniteSets, TLC

\* ------------------------------------------------------------------ bounds
\* Number of zwp_text_input_v3 objects ever created (object ids are unique).
MaxIds == 2
\* Number of Commit requests issued inside the model's window.
MaxCommits == 2
\* Number of operations the threads of the concurrent model start.
MaxOps == 3

\* `serial: u32` is held as two 16-bit limbs <<hi, lo>>, value
\* hi * LimbBase + lo, so that the 32-bit width is kept exactly.
LimbBase == 65536

\* The u32 with a small value n.
u32(n) == <<0, n>>
\* u32::MAX
U32Max == <<LimbBase - 1, LimbBase - 1>>

\* `n as u32` for an i32 n: a negative n becomes n + 2^32.
as_u32(n) ==
    IF n >= 0 THEN <<n \div LimbBase, n % LimbBase>>
    ELSE <<LimbBase - 1 - ((-n - 1) \div LimbBase),
           LimbBase - 1 - ((-n - 1) % LimbBase)>>

\* A natural number in the same two-limb form whose high limb is unbounded
\* (the history counters, which do not wrap).
count_add_one(c) ==
    IF c[2] + 1 < LimbBase THEN <<c[1], c[2] + 1>> ELSE <<c[1] + 1, 0>>
count_leq(a, b) == a[1] < b[1] \/ (a[1] = b[1] /\ a[2] <= b[2])

\* Two clients, each with one surface: the code only ever asks whether two
\* objects belong to the same client.
Clients == {1, 2}
Surfaces == {1, 2}
Ids == 1..MaxIds

\* The client a wl_surface belongs to (the object table of the transport).
SurfaceClient(s) == <<1, 2>>[s]

VARIABLES
    instances,      \* TextInput.instances : Vec<Instance>
    focus,          \* TextInput.focus : Option<WlSurface>, <<>> or <<s>>
    surface_alive,  \* the wl_surfaces whose alive() is true
    next_id,        \* id of the next zwp_text_input_v3 object
    crashed,        \* a handler panicked: the panic unwinds through the
                    \* dispatch loop and the compositor stops
    last_op,        \* the operation that produced this state
    sent,           \* events sent to text-input instances by last_op
    trace,          \* relay calls, callbacks and removals made by last_op
    commits,        \* history: Commit requests issued per object id
    dones,          \* history: Done events sent per object id
    issued,         \* history: Commit requests issued inside the window
    entered,        \* history: ids of the instances that have received Enter,
                    \* where the specification records it (EnterRecorded)
    \* PopupSurface (input_method_popup_surface.rs)
    rectangle,            \* PopupSurface.rectangle : Rectangle<i32, Physical>
    parent_location,      \* PopupSurface.parent_location
    popup_surface_alive,  \* PopupSurface.surface.alive()
    alive_tracker,        \* InputMethodPopupSurfaceUserData.alive_tracker
    role_sent,            \* events sent to surface_role by popup_op
    popup_op,             \* the popup operation that produced this state
    \* threads calling into the registry (Arc<Mutex<TextInput>>)
    lock,           \* TextInputHandle.inner's mutex: <<>> or <<holder>>
    pc,             \* per thread: the operation it runs and where it is
    snap,           \* per thread: the registry when it took the lock
    obs,            \* per thread: what done()'s closure has read
    out,            \* per thread: events sent and callbacks run by its operation
    nops            \* operations started

regVars == <<instances, focus, surface_alive, next_id, crashed, last_op,
             sent, trace, commits, dones, issued, entered>>

popVars == <<rectangle, parent_location, popup_surface_alive, alive_tracker,
             role_sent, popup_op>>

concVars == <<lock, pc, snap, obs, out, nops>>

vars == <<regVars, popVars, concVars>>

\* ------------------------------------------------------------ helpers
Range(s) == {s[k] : k \in DOMAIN s}

Event(kind, to, arg) == [kind |-> kind, to |-> to, arg |-> arg]
Call(name, arg) == [call |-> name, arg |-> arg]
Op(name, arg) == [op |-> name, arg |-> arg]

\* The events of one kind sent by the last operation.
SentOfKind(kind) == {e \in Range(sent) : e.kind = kind}

\* Map a sequence of instances to the events a loop over it sends.
RECURSIVE EventsFor(_, _, _)
EventsFor(insts, kind, arg) ==
    IF insts = <<>> THEN <<>>
    ELSE <<Event(kind, Head(insts).instance, arg)>>
         \o EventsFor(Tail(insts), kind, arg)

\* ObjectId::same_client_as for a text-input object and a surface.
same_client_as(ti, surface) == ti.client = SurfaceClient(surface)

\* -------------------------------------------------------- PopupSurface
\* Rectangle::from_loc_and_size((x, y), (width, height))
Rect(x, y, w, h) == [loc |-> [x |-> x, y |-> y], size |-> [w |-> w, h |-> h]]

\* A popup operation, its argument, the rectangle before it and its result.
PopupOp(name, arg, prev, result) ==
    [op |-> name, arg |-> arg, prev |-> prev, result |-> result]

\* The cursor rectangles of the model: a range of i32 values around the
\* origin, negative ones included, inside which no i32 operation overflows.
Xs == {-3, 0, 10}
Ys == {0, 20}
Ws == {0, 5}
Hs == {-2, 0, 8}
Rects == {Rect(x, y, w, h) : x \in Xs, y \in Ys, w \in Ws, h \in Hs}
ParentLocations == {Rect(0, 0, 0, 0), Rect(100, 50, 640, 480)}

\* Faulty variant: the width is added instead of subtracted.
location_plus_width(rect) ==
    <<rect.loc.x + rect.size.w, rect.loc.y + rect.size.h>>

\* PopupSurface::location
location(rect) ==
    <<rect.loc.x - rect.size.w, rect.loc.y + rect.size.h>>

\* Faulty variant: the rectangle is sent to the role but not stored.
set_rectangle_not_stored(old, x, y, width, height) == old

\* PopupSurface::set_rectangle: the stored rectangle after the call.
set_rectangle(old, x, y, width, height) == Rect(x, y, width, height)

\* PopupSurface::set_rectangle: `surface_role.text_input_rectangle(..)`.
text_input_rectangle(x, y, width, height) ==
    <<[kind |-> "TextInputRectangle", x |-> x, y |-> y,
       width |-> width, height |-> height]>>

\* Faulty variant: either liveness is taken to be enough.
alive_either(surface_is_alive, tracker) == surface_is_alive \/ tracker

\* PopupSurface::alive
alive(surface_is_alive, tracker) == surface_is_alive /\ tracker

\* AliveTracker::destroy_notify: the tracker is dead from now on.
destroy_notify(tracker) == FALSE

\* No popup surface is being exercised.
PopupIdle ==
    /\ rectangle = Rect(0, 0, 0, 0)
    /\ parent_location = Rect(0, 0, 0, 0)
    /\ popup_surface_alive = TRUE
    /\ alive_tracker = TRUE
    /\ role_sent = <<>>
    /\ popup_op = PopupOp("none", 0, 0, 0)

\* PopupSurface::new(surface_role, surface, parent, rectangle, parent_location)
PopupNew ==
    /\ rectangle \in Rects
    /\ parent_location \in ParentLocations
    /\ popup_surface_alive = TRUE
    /\ alive_tracker = TRUE
    /\ role_sent = <<>>
    /\ popup_op = PopupOp("new", 0, 0, 0)

\* PopupSurface::set_rectangle
SetRectangle(x, y, width, height) ==
    /\ rectangle' = set_rectangle(rectangle, x, y, width, height)
    /\ role_sent' = text_input_rectangle(x, y, width, height)
    /\ popup_op' = PopupOp("set_rectangle", Rect(x, y, width, height), rectangle, 0)
    /\ UNCHANGED <<parent_location, popup_surface_alive, alive_tracker>>
    /\ UNCHANGED <<regVars, concVars>>

\* PopupSurface::location
Location ==
    /\ popup_op' = PopupOp("location", 0, rectangle, location(rectangle))
    /\ role_sent' = <<>>
    /\ UNCHANGED <<rectangle, parent_location, popup_surface_alive, alive_tracker>>
    /\ UNCHANGED <<regVars, concVars>>

\* PopupSurface::alive
Alive ==
    /\ popup_op' = PopupOp("alive", 0, rectangle,
                           alive(popup_surface_alive, alive_tracker))
    /\ role_sent' = <<>>
    /\ UNCHANGED <<rectangle, parent_location, popup_surface_alive, alive_tracker>>
    /\ UNCHANGED <<regVars, concVars>>

\* Dispatch<ZwpInputPopupSurfaceV2>::request, Request::Destroy: nothing to do.
RoleDestroyRequest ==
    /\ alive_tracker
    /\ popup_op' = PopupOp("request_destroy", 0, rectangle, 0)
    /\ role_sent' = <<>>
    /\ UNCHANGED <<rectangle, parent_location, popup_surface_alive, alive_tracker>>
    /\ UNCHANGED <<regVars, concVars>>

\* Dispatch<ZwpInputPopupSurfaceV2>::destroyed, called once per role object.
RoleDestroyed ==
    /\ alive_tracker
    /\ alive_tracker' = destroy_notify(alive_tracker)
    /\ popup_op' = PopupOp("role_destroyed", 0, rectangle, 0)
    /\ role_sent' = <<>>
    /\ UNCHANGED <<rectangle, parent_location, popup_surface_alive>>
    /\ UNCHANGED <<regVars, concVars>>

\* The client destroys the popup's wl_surface.
PopupSurfaceDestroyed ==
    /\ popup_surface_alive
    /\ popup_surface_alive' = FALSE
    /\ popup_op' = PopupOp("surface_destroyed", 0, rectangle, 0)
    /\ role_sent' = <<>>
    /\ UNCHANGED <<rectangle, parent_location, alive_tracker>>
    /\ UNCHANGED <<regVars, concVars>>

\* ----------------------------------------------------------- TextInput
\* Faulty variant: the liveness test of the focus surface is missing.
with_focused_text_input_no_alive(insts, foc, live) ==
    IF foc = <<>> THEN {}
    ELSE {k \in DOMAIN insts : insts[k].instance.client = SurfaceClient(foc[1])}

\* Faulty variant: the same-client filter is missing.
with_focused_text_input_any_client(insts, foc, live) ==
    IF foc = <<>> THEN {}
    ELSE IF foc[1] \notin live THEN {}
    ELSE DOMAIN insts

\* TextInput::with_focused_text_input: the indices of the instances the
\* closure is invoked on, in iteration order.
with_focused_text_input(insts, foc, live) ==
    IF foc = <<>> THEN {}
    ELSE IF foc[1] \notin live THEN {}
    ELSE {k \in DOMAIN insts : same_client_as(insts[k].instance, foc[1])}

\* TextInputHandle::add_instance
add_instance(insts, instance) ==
    Append(insts, [instance |-> instance, serial |-> u32(0), ready |-> FALSE])

\* `ti.serial += 1` on a u32: with overflow checks (debug builds) the
\* addition panics and the field keeps its value; without them it wraps.
serial_add_one(serial, overflow_checks) ==
    IF serial = U32Max
    THEN (IF overflow_checks THEN serial ELSE u32(0))
    ELSE count_add_one(serial)

\* Whether `ti.serial += 1` panics for some entry matching text_input.
serial_overflows(insts, text_input) ==
    \E k \in DOMAIN insts :
        insts[k].instance = text_input /\ insts[k].serial = U32Max

\* Faulty variant: the entries are matched by client, not by object.
increment_serial_same_client(insts, text_input, overflow_checks) ==
    [k \in DOMAIN insts |->
        IF insts[k].instance.client = text_input.client
        THEN [insts[k] EXCEPT !.ready = TRUE,
                              !.serial = serial_add_one(@, overflow_checks)]
        ELSE insts[k]]

\* Faulty variant: `ti.ready = true` is missing.
increment_serial_not_ready(insts, text_input, overflow_checks) ==
    [k \in DOMAIN insts |->
        IF insts[k].instance = text_input
        THEN [insts[k] EXCEPT !.serial = serial_add_one(@, overflow_checks)]
        ELSE insts[k]]

\* TextInputHandle::increment_serial
increment_serial(insts, text_input, overflow_checks) ==
    [k \in DOMAIN insts |->
        IF insts[k].instance = text_input
        THEN [insts[k] EXCEPT !.ready = TRUE,
                              !.serial = serial_add_one(@, overflow_checks)]
        ELSE insts[k]]

\* TextInputHandle::leave: the Leave events sent.
leave(insts, surface) ==
    EventsFor(SelectSeq(insts, LAMBDA ti : same_client_as(ti.instance, surface)),
              "Leave", surface)

\* Faulty variant: the same-client test of the loop is missing.
enter_every_client(insts, surface) == EventsFor(insts, "Enter", surface)

\* TextInputHandle::enter: the Enter events sent.
enter(insts, surface) ==
    EventsFor(SelectSeq(insts, LAMBDA ti : same_client_as(ti.instance, surface)),
              "Enter", surface)

\* TextInputHandle::done: the closure's test `if *ready` on entry k.
done_fires(insts, foc, live, k) ==
    k \in with_focused_text_input(insts, foc, live) /\ insts[k].ready

\* Faulty variant: `*ready = false` is missing.
done_instances_keep_ready(insts, foc, live) == insts

\* TextInputHandle::done: the instances after the call.
done_instances(insts, foc, live) ==
    [k \in DOMAIN insts |->
        IF done_fires(insts, foc, live, k)
        THEN [insts[k] EXCEPT !.ready = FALSE]
        ELSE insts[k]]

\* TextInputHandle::done: the Done events sent, `ti.done(serial)`.
RECURSIVE done_events(_, _, _, _)
done_events(insts, foc, live, k) ==
    IF k > Len(insts) THEN <<>>
    ELSE (IF done_fires(insts, foc, live, k)
          THEN <<Event("Done", insts[k].instance, insts[k].serial)>>
          ELSE <<>>)
         \o done_events(insts, foc, live, k + 1)

\* TextInputHandle::with_focused_text_input: the invocations f(ti, surface).
RECURSIVE focused_callbacks(_, _, _, _)
focused_callbacks(insts, foc, live, k) ==
    IF k > Len(insts) THEN <<>>
    ELSE (IF k \in with_focused_text_input(insts, foc, live)
          THEN <<Call("f(ti, surface)", insts[k].instance.id)>>
          ELSE <<>>)
         \o focused_callbacks(insts, foc, live, k + 1)

\* TextInputHandle::focused_text_input_serial: the invocations f(serial).
RECURSIVE serial_callbacks(_, _, _, _)
serial_callbacks(insts, foc, live, k) ==
    IF k > Len(insts) THEN <<>>
    ELSE (IF k \in with_focused_text_input(insts, foc, live)
          THEN <<Call("f(serial)", insts[k].serial)>>
          ELSE <<>>)
         \o serial_callbacks(insts, foc, live, k + 1)

\* InputMethodHandle::with_instance: runs the closure on the relay's
\* input-method instance; `calls` are the relay calls the closure makes.
with_instance(calls) == calls

\* Faulty variant: the test of retain is `==`.
retain_only(insts, ti) == SelectSeq(insts, LAMBDA i : i.instance.id = ti)

\* Dispatch::destroyed: `instances.retain(|i| i.instance.id() != ti)`.
retain_not(insts, ti) == SelectSeq(insts, LAMBDA i : i.instance.id # ti)

\* Faulty variant: the instance is removed before the relay is told.
destroyed_remove_first(ti) ==
    <<Call("instances.retain", ti)>>
    \o <<Call("relay.deactivate", ti), Call("relay.done", ti)>>

\* Dispatch::destroyed: the handler's calls, in program order.
destroyed(ti) ==
    with_instance(<<Call("relay.deactivate", ti), Call("relay.done", ti)>>)
    \o <<Call("instances.retain", ti)>>

\* Dispatch::request, Request::Commit: the handler's calls, in program
\* order; a panic in increment_serial unwinds before the relay is called.
commit_calls(ti, panics) ==
    <<Call("increment_serial", ti)>>
    \o (IF panics THEN <<>> ELSE with_instance(<<Call("relay.done", ti)>>))

\* The text-input objects that have not been destroyed.
LiveObjects == {instances[k].instance : k \in DOMAIN instances}

\* The objects increment_serial can be handed that have no entry: the ids
\* that have been given out and whose entry has been removed.
RemovedObjects ==
    {[id |-> i, client |-> c] : i \in 1..(next_id - 1), c \in Clients}
    \ {[id |-> o.id, client |-> c] : o \in LiveObjects, c \in Clients}

\* ------------------------------------------- Dispatch::request, the arms
\* The values a client can put on the wire for the enumerated arguments,
\* recognized or not, and the other arguments of the requests.
CauseValues == {0, 1, 2}
HintValues == {0, 1024}
PurposeValues == {13, 14}
Texts == {"abc"}
Cursors == {-1, 3}
Anchors == {0}
CursorRects == {Rect(10, 20, 5, 8), Rect(-3, 0, 0, -2)}

\* WEnum::into_result: Ok for a value the protocol defines, Err otherwise.
\* change_cause has the values 0 and 1, content_purpose 0 to 13, and
\* content_hint is a bit field of ten bits.
into_result(kind, value) ==
    CASE kind = "change_cause" -> value \in 0..1
      [] kind = "content_hint" -> value \in 0..1023
      [] kind = "content_purpose" -> value \in 0..13

\* The result of a request arm: whether it panics, and the relay calls made.
Arm(panics, calls) == [panics |-> panics, calls |-> calls]

\* Request::Enable and Request::Disable: the arms are empty.
enable == Arm(FALSE, <<>>)
disable == Arm(FALSE, <<>>)

\* Request::SetSurroundingText
set_surrounding_text(text, cursor, anchor) ==
    Arm(FALSE,
        with_instance(<<Call("relay.surrounding_text",
                             <<text, as_u32(cursor), as_u32(anchor)>>)>>))

\* Faulty variant: the cause is handed on without `into_result().unwrap()`.
set_text_change_cause_unchecked(cause) ==
    Arm(FALSE, <<Call("relay.text_change_cause", cause)>>)

\* Request::SetTextChangeCause: `cause.into_result().unwrap()` panics on
\* Err, before text_change_cause is called.
set_text_change_cause(cause) ==
    IF into_result("change_cause", cause)
    THEN Arm(FALSE, with_instance(<<Call("relay.text_change_cause", cause)>>))
    ELSE Arm(TRUE, with_instance(<<>>))

\* Request::SetContentType: both unwraps are evaluated before content_type
\* is called.
set_content_type(hint, purpose) ==
    IF into_result("content_hint", hint) /\ into_result("content_purpose", purpose)
    THEN Arm(FALSE, with_instance(<<Call("relay.content_type", <<hint, purpose>>)>>))
    ELSE Arm(TRUE, with_instance(<<>>))

\* Faulty variant: the rectangle is kept until the next Commit.
set_cursor_rectangle_deferred(rect) == Arm(FALSE, <<>>)

\* Request::SetCursorRectangle
set_cursor_rectangle(rect) ==
    Arm(FALSE, <<Call("relay.set_text_input_rectangle",
                      <<rect.loc.x, rect.loc.y, rect.size.w, rect.size.h>>)>>)

\* Request::Destroy: nothing to do.
destroy == Arm(FALSE, <<>>)

\* ------------------------------------------------------------- threads
Threads == {1, 2}

Pc(op, arg, at) == [op |-> op, arg |-> arg, at |-> at]
Idle == Pc("idle", 0, "idle")

ThreadsIdle ==
    /\ lock = <<>>
    /\ pc = [t \in Threads |-> Idle]
    /\ snap = [t \in Threads |-> <<>>]
    /\ obs = [t \in Threads |-> <<>>]
    /\ out = [t \in Threads |-> <<>>]
    /\ nops = 0

\* Faulty variant: the operation does not wait for the mutex.
lock_without_waiting(mutex) == TRUE

\* `self.inner.lock()`: the call returns once the mutex is free.
lock_is_free(mutex) == mutex = <<>>

\* Faulty variant: the guard outlives the function (it is not dropped).
drop_guard_kept(mutex) == mutex

\* The MutexGuard `inner` goes out of scope: the mutex is free again.
drop_guard(mutex) == <<>>

\* TextInputHandle::increment_serial, `ti.ready = true`.
set_ready(insts, text_input) ==
    [k \in DOMAIN insts |->
        IF insts[k].instance = text_input
        THEN [insts[k] EXCEPT !.ready = TRUE] ELSE insts[k]]

\* TextInputHandle::increment_serial, `ti.serial += 1`.
add_serial(insts, text_input) ==
    [k \in DOMAIN insts |->
        IF insts[k].instance = text_input
        THEN [insts[k] EXCEPT !.serial = serial_add_one(@, FALSE)] ELSE insts[k]]

\* TextInputHandle::done: what the closure is handed for each focused
\* instance, `ti.serial` and `&mut ti.ready`, with the number of commits
\* begun on the instance at that moment.
RECURSIVE done_reads(_, _, _, _, _)
done_reads(insts, foc, live, begun, k) ==
    IF k > Len(insts) THEN <<>>
    ELSE (IF k \in with_focused_text_input(insts, foc, live)
          THEN <<[instance |-> insts[k].instance, serial |-> insts[k].serial,
                  ready |-> insts[k].ready, begun |-> begun[insts[k].instance.id]]>>
          ELSE <<>>)
         \o done_reads(insts, foc, live, begun, k + 1)

\* TextInputHandle::done: `*ready = false` on the instances read as ready.
done_clear(insts, reads) ==
    [k \in DOMAIN insts |->
        IF \E r \in Range(reads) : r.ready /\ r.instance = insts[k].instance
        THEN [insts[k] EXCEPT !.ready = FALSE] ELSE insts[k]]

\* TextInputHandle::done: `ti.done(serial)` for the instances read as ready.
RECURSIVE done_sends(_)
done_sends(reads) ==
    IF reads = <<>> THEN <<>>
    ELSE (IF Head(reads).ready
          THEN <<Event("Done", Head(reads).instance, Head(reads).serial)>>
          ELSE <<>>)
         \o done_sends(Tail(reads))

\* The operations that are requests of a client, with that client.
IsRequest(p) == p.op \in {"add_instance", "commit", "destroyed"}

\* The dispatch layer delivers one request at a time per connection.
ConnectionFree(c) ==
    \A t \in Threads : IsRequest(pc[t]) => pc[t].arg.client # c

\* The first step of an operation: Dispatch::destroyed calls the relay
\* before it takes the lock, everything else starts with `inner.lock()`.
FirstStep(op) == IF op = "destroyed" THEN "relay_before" ELSE "lock"

\* The first step inside the critical section.
FirstLocked(op) ==
    CASE op = "commit" -> "set_ready"
      [] op = "enter" -> "set_focus"
      [] op = "done" -> "read"
      [] OTHER -> "body"

InCritical(t) ==
    pc[t].at \in {"set_ready", "add_serial", "set_focus", "send", "read",
                  "ack", "body", "unlock"}

\* A thread starts an operation of the registry.
Begin(t, op, arg) ==
    /\ pc[t].at = "idle"
    /\ nops < MaxOps
    /\ pc' = [pc EXCEPT ![t] = Pc(op, arg, FirstStep(op))]
    /\ out' = [out EXCEPT ![t] = <<>>]
    /\ obs' = [obs EXCEPT ![t] = <<>>]
    /\ snap' = [snap EXCEPT ![t] = <<>>]
    /\ nops' = nops + 1

UnchangedRegistry ==
    UNCHANGED <<instances, focus, surface_alive, next_id, crashed, last_op,
                sent, trace, commits, dones, issued, entered>>

\* A client binds a text-input object: the call of add_instance begins.
BeginAddInstance(t, c) ==
    /\ next_id <= MaxIds
    /\ ConnectionFree(c)
    /\ Begin(t, "add_instance", [id |-> next_id, client |-> c])
    /\ next_id' = next_id + 1
    /\ UNCHANGED <<instances, focus, surface_alive, crashed, last_op, sent,
                   trace, commits, dones, issued, lock, entered>>
    /\ UNCHANGED popVars

\* Request::Commit arrives for a live object.
BeginCommit(t, ti) ==
    /\ issued < MaxCommits
    /\ ConnectionFree(ti.client)
    /\ Begin(t, "commit", ti)
    /\ issued' = issued + 1
    /\ UNCHANGED <<instances, focus, surface_alive, next_id, crashed, last_op,
                   sent, trace, commits, dones, lock, entered>>
    /\ UNCHANGED popVars

\* Dispatch::destroyed is called for a live object.
BeginDestroyed(t, ti) ==
    /\ ConnectionFree(ti.client)
    /\ Begin(t, "destroyed", ti)
    /\ UnchangedRegistry
    /\ UNCHANGED <<lock, popVars>>

\* The compositor or the relay calls enter, leave, done, focus,
\* with_focused_text_input or focused_text_input_serial.
BeginCall(t, op, arg) ==
    /\ Begin(t, op, arg)
    /\ UnchangedRegistry
    /\ UNCHANGED <<lock, popVars>>

\* Move thread t to its next step.
Goto(t, at) == pc' = [pc EXCEPT ![t].at = at]

\* Dispatch::destroyed: `with_instance(|im| { im.deactivate(); im.done(); })`,
\* before the registry lock is taken.
RelayBefore(t) ==
    /\ pc[t].at = "relay_before"
    /\ Goto(t, "lock")
    /\ UnchangedRegistry
    /\ UNCHANGED <<lock, snap, obs, out, nops, popVars>>

\* `let mut inner = self.inner.lock().unwrap();`
Lock(t) ==
    /\ pc[t].at = "lock"
    /\ lock_is_free(lock)
    /\ lock' = <<t>>
    /\ snap' = [snap EXCEPT ![t] = [instances |-> instances, focus |-> focus]]
    /\ Goto(t, FirstLocked(pc[t].op))
    /\ UnchangedRegistry
    /\ UNCHANGED <<obs, out, nops, popVars>>

\* increment_serial: `ti.ready = true`.
SetReady(t) ==
    /\ pc[t].at = "set_ready"
    /\ instances' = set_ready(instances, pc[t].arg)
    /\ commits' = [commits EXCEPT ![pc[t].arg.id] = count_add_one(@)]
    /\ Goto(t, "add_serial")
    /\ UNCHANGED <<focus, surface_alive, next_id, crashed, last_op, sent,
                   trace, dones, issued, entered>>
    /\ UNCHANGED <<lock, snap, obs, out, nops, popVars>>

\* increment_serial: `ti.serial += 1`.
AddSerial(t) ==
    /\ pc[t].at = "add_serial"
    /\ instances' = add_serial(instances, pc[t].arg)
    /\ Goto(t, "unlock")
    /\ UNCHANGED <<focus, surface_alive, next_id, crashed, last_op, sent,
                   trace, commits, dones, issued, entered>>
    /\ UNCHANGED <<lock, snap, obs, out, nops, popVars>>

\* enter: `inner.focus = Some(surface.clone())`.
SetFocus(t) ==
    /\ pc[t].at = "set_focus"
    /\ focus' = <<pc[t].arg>>
    /\ Goto(t, "send")
    /\ UNCHANGED <<instances, surface_alive, next_id, crashed, last_op, sent,
                   trace, commits, dones, issued, entered>>
    /\ UNCHANGED <<lock, snap, obs, out, nops, popVars>>

\* enter: the loop sending Enter.
SendEnter(t) ==
    /\ pc[t].at = "send"
    /\ out' = [out EXCEPT ![t] = enter(instances, pc[t].arg)]
    /\ Goto(t, "unlock")
    /\ UnchangedRegistry
    /\ UNCHANGED <<lock, snap, obs, nops, popVars>>

\* done: the closure is handed the serial and the ready flag.
DoneRead(t) ==
    /\ pc[t].at = "read"
    /\ obs' = [obs EXCEPT ![t] =
                  done_reads(instances, focus, surface_alive, commits, 1)]
    /\ Goto(t, "ack")
    /\ UnchangedRegistry
    /\ UNCHANGED <<lock, snap, out, nops, popVars>>

\* done: `*ready = false; ti.done(serial);`
DoneAck(t) ==
    /\ pc[t].at = "ack"
    /\ instances' = done_clear(instances, obs[t])
    /\ out' = [out EXCEPT ![t] = done_sends(obs[t])]
    /\ Goto(t, "unlock")
    /\ UNCHANGED <<focus, surface_alive, next_id, crashed, last_op, sent,
                   trace, commits, dones, issued, entered>>
    /\ UNCHANGED <<lock, snap, obs, nops, popVars>>

\* The body of the operations that are one statement or one loop.
Body(t) ==
    /\ pc[t].at = "body"
    /\ instances' =
         CASE pc[t].op = "add_instance" -> add_instance(instances, pc[t].arg)
           [] pc[t].op = "destroyed" -> retain_not(instances, pc[t].arg.id)
           [] OTHER -> instances
    /\ out' = [out EXCEPT ![t] =
         CASE pc[t].op = "leave" -> leave(instances, pc[t].arg)
           [] pc[t].op = "focus" -> <<Call("return", focus)>>
           [] pc[t].op = "with_focused_text_input" ->
                focused_callbacks(instances, focus, surface_alive, 1)
           [] pc[t].op = "focused_text_input_serial" ->
                serial_callbacks(instances, focus, surface_alive, 1)
           [] OTHER -> <<>>]
    /\ Goto(t, "unlock")
    /\ UNCHANGED <<focus, surface_alive, next_id, crashed, last_op, sent,
                   trace, commits, dones, issued, entered>>
    /\ UNCHANGED <<lock, snap, obs, nops, popVars>>

\* The guard `inner` is dropped at the end of the function.
Unlock(t) ==
    /\ pc[t].at = "unlock"
    /\ lock' = drop_guard(lock)
    /\ pc' = [pc EXCEPT ![t] =
                 IF pc[t].op = "commit" THEN Pc("commit", pc[t].arg, "relay_after")
                 ELSE Idle]
    /\ UnchangedRegistry
    /\ UNCHANGED <<snap, obs, out, nops, popVars>>

\* Request::Commit: `with_instance(|im| im.done())`, after increment_serial
\* has returned.
RelayAfter(t) ==
    /\ pc[t].at = "relay_after"
    /\ pc' = [pc EXCEPT ![t] = Idle]
    /\ UnchangedRegistry
    /\ UNCHANGED <<lock, snap, obs, out, nops, popVars>>

\* The operations of the registry the relay calls back, from inside
\* relay.done() or relay.deactivate(), on the thread of the handler.
Callbacks == {"done", "with_focused_text_input", "focused_text_input_serial"}

\* While a handler is inside its relay call, the relay calls back into the
\* registry: the callback takes the lock, runs and releases it before it
\* returns to the relay.
RelayCallback(t, op) ==
    /\ pc[t].at \in {"relay_before", "relay_after"}
    /\ lock_is_free(lock)
    /\ obs' = [obs EXCEPT ![t] =
                  done_reads(instances, focus, surface_alive, commits, 1)]
    /\ instances' = IF op = "done" THEN done_clear(instances, obs'[t])
                    ELSE instances
    /\ UNCHANGED <<focus, surface_alive, next_id, crashed, last_op, sent,
                   trace, commits, dones, issued, entered>>
    /\ UNCHANGED <<lock, pc, snap, out, nops, popVars>>

\* ------------------------------------------------------------- actions
\* A client binds a text-input object (TextInputHandle::add_instance).
AddInstance(c) ==
    /\ ~crashed
    /\ next_id <= MaxIds
    /\ instances' = add_instance(instances, [id |-> next_id, client |-> c])
    /\ next_id' = next_id + 1
    /\ last_op' = Op("add_instance", [id |-> next_id, client |-> c])
    /\ sent' = <<>>
    /\ trace' = <<>>
    /\ UNCHANGED <<focus, surface_alive, crashed, commits, dones, issued, entered>>
    /\ UNCHANGED <<popVars, concVars>>

\* Request::Commit on a live text-input object.
Commit(ti) ==
    /\ ~crashed
    /\ issued < MaxCommits
    /\ \E overflow_checks \in BOOLEAN :
         LET panics == overflow_checks /\ serial_overflows(instances, ti) IN
         /\ instances' = increment_serial(instances, ti, overflow_checks)
         /\ crashed' = panics
         /\ trace' = commit_calls(ti.id, panics)
    /\ commits' = [commits EXCEPT ![ti.id] = count_add_one(@)]
    /\ issued' = issued + 1
    /\ last_op' = Op("commit", ti)
    /\ sent' = <<>>
    /\ UNCHANGED <<focus, surface_alive, next_id, dones, entered>>
    /\ UNCHANGED <<popVars, concVars>>

\* Keyboard focus enters a surface (TextInputHandle::enter).
Enter(surface) ==
    /\ ~crashed
    /\ surface \in surface_alive
    /\ focus' = <<surface>>
    /\ sent' = enter(instances, surface)
    /\ last_op' = Op("enter", surface)
    /\ trace' = <<>>
    /\ UNCHANGED <<instances, surface_alive, next_id, crashed, commits, dones, issued, entered>>
    /\ UNCHANGED <<popVars, concVars>>

\* TextInputHandle::enter, with the instances that receive Enter recorded.
EnterRecorded(surface) ==
    /\ ~crashed
    /\ surface \in surface_alive
    /\ focus' = <<surface>>
    /\ sent' = enter(instances, surface)
    /\ entered' = entered \cup {e.to.id : e \in Range(sent')}
    /\ last_op' = Op("enter", surface)
    /\ trace' = <<>>
    /\ UNCHANGED <<instances, surface_alive, next_id, crashed, commits, dones, issued>>
    /\ UNCHANGED <<popVars, concVars>>

\* Faulty variant: leave also clears the focus.
LeaveClearsFocus(surface) ==
    /\ ~crashed
    /\ surface \in surface_alive
    /\ sent' = leave(instances, surface)
    /\ focus' = <<>>
    /\ last_op' = Op("leave", surface)
    /\ trace' = <<>>
    /\ UNCHANGED <<instances, surface_alive, next_id, crashed, commits, dones, issued, entered>>
    /\ UNCHANGED <<popVars, concVars>>

\* Keyboard focus leaves a surface (TextInputHandle::leave).
Leave(surface) ==
    /\ ~crashed
    /\ surface \in surface_alive
    /\ sent' = leave(instances, surface)
    /\ last_op' = Op("leave", surface)
    /\ trace' = <<>>
    /\ UNCHANGED <<instances, focus, surface_alive, next_id, crashed, commits, dones, issued, entered>>
    /\ UNCHANGED <<popVars, concVars>>

\* The relay acknowledges (TextInputHandle::done).
Done ==
    /\ ~crashed
    /\ instances' = done_instances(instances, focus, surface_alive)
    /\ sent' = done_events(instances, focus, surface_alive, 1)
    /\ dones' = [id \in Ids |->
                    IF \E k \in DOMAIN sent' : sent'[k].to.id = id
                    THEN count_add_one(dones[id]) ELSE dones[id]]
    /\ last_op' = Op("done", 0)
    /\ trace' = <<>>
    /\ UNCHANGED <<focus, surface_alive, next_id, crashed, commits, issued, entered>>
    /\ UNCHANGED <<popVars, concVars>>

\* TextInputHandle::with_focused_text_input
WithFocusedTextInput ==
    /\ ~crashed
    /\ trace' = focused_callbacks(instances, focus, surface_alive, 1)
    /\ last_op' = Op("with_focused_text_input", 0)
    /\ sent' = <<>>
    /\ UNCHANGED <<instances, focus, surface_alive, next_id, crashed, commits, dones, issued, entered>>
    /\ UNCHANGED <<popVars, concVars>>

\* TextInputHandle::focused_text_input_serial
FocusedTextInputSerial ==
    /\ ~crashed
    /\ trace' = serial_callbacks(instances, focus, surface_alive, 1)
    /\ last_op' = Op("focused_text_input_serial", 0)
    /\ sent' = <<>>
    /\ UNCHANGED <<instances, focus, surface_alive, next_id, crashed, commits, dones, issued, entered>>
    /\ UNCHANGED <<popVars, concVars>>

\* TextInputHandle::focus
Focus ==
    /\ ~crashed
    /\ trace' = <<Call("return", focus)>>
    /\ last_op' = Op("focus", 0)
    /\ sent' = <<>>
    /\ UNCHANGED <<instances, focus, surface_alive, next_id, crashed, commits, dones, issued, entered>>
    /\ UNCHANGED <<popVars, concVars>>

\* The text-input object is destroyed (Dispatch::destroyed).
Destroyed(ti) ==
    /\ ~crashed
    /\ trace' = destroyed(ti.id)
    /\ instances' = retain_not(instances, ti.id)
    /\ last_op' = Op("destroyed", ti)
    /\ sent' = <<>>
    /\ entered' = entered \ {ti.id}
    /\ UNCHANGED <<focus, surface_alive, next_id, crashed, commits, dones, issued>>
    /\ UNCHANGED <<popVars, concVars>>

\* A client destroys one of its surfaces (WlSurface::alive becomes false).
SurfaceDestroyed(surface) ==
    /\ ~crashed
    /\ surface \in surface_alive
    /\ surface_alive' = surface_alive \ {surface}
    /\ last_op' = Op("surface_destroyed", surface)
    /\ sent' = <<>>
    /\ trace' = <<>>
    /\ UNCHANGED <<instances, focus, next_id, crashed, commits, dones, issued, entered>>
    /\ UNCHANGED <<popVars, concVars>>

\* A request arm that touches the registry not at all: its relay calls are
\* made, and a panic stops the compositor.
Request(name, ti, arg, arm) ==
    /\ ~crashed
    /\ trace' = arm.calls
    /\ crashed' = arm.panics
    /\ last_op' = Op(name, [ti |-> ti, arg |-> arg])
    /\ sent' = <<>>
    /\ UNCHANGED <<instances, focus, surface_alive, next_id, commits, dones,
                   issued, entered>>
    /\ UNCHANGED <<popVars, concVars>>

\* Request::Enable on a live text-input object.
Enable(ti) == Request("Enable", ti, 0, enable)

\* Request::Disable
Disable(ti) == Request("Disable", ti, 0, disable)

\* Request::SetSurroundingText { text, cursor, anchor }
SetSurroundingText(ti, text, cursor, anchor) ==
    Request("SetSurroundingText", ti, <<text, cursor, anchor>>,
            set_surrounding_text(text, cursor, anchor))

\* Request::SetTextChangeCause { cause }
SetTextChangeCause(ti, cause) ==
    Request("SetTextChangeCause", ti, cause, set_text_change_cause(cause))

\* Request::SetContentType { hint, purpose }
SetContentType(ti, hint, purpose) ==
    Request("SetContentType", ti, <<hint, purpose>>,
            set_content_type(hint, purpose))

\* Request::SetCursorRectangle { x, y, width, height }
SetCursorRectangle(ti, rect) ==
    Request("SetCursorRectangle", ti, rect, set_cursor_rectangle(rect))

\* Request::Destroy
DestroyRequest(ti) == Request("Destroy", ti, 0, destroy)

\* TextInputHandle::increment_serial for an object that has no entry.
IncrementSerial(ti) ==
    /\ ~crashed
    /\ \E overflow_checks \in BOOLEAN :
         /\ instances' = increment_serial(instances, ti, overflow_checks)
         /\ crashed' = (overflow_checks /\ serial_overflows(instances, ti))
    /\ last_op' = Op("increment_serial", ti)
    /\ sent' = <<>>
    /\ trace' = <<>>
    /\ UNCHANGED <<focus, surface_alive, next_id, commits, dones, issued, entered>>
    /\ UNCHANGED <<popVars, concVars>>

\* ------------------------------------------------------ specifications
\* TextInput::default(): no instances, no focus.
RegistryNew ==
    /\ instances = <<>>
    /\ focus = <<>>
    /\ surface_alive = Surfaces
    /\ next_id = 1
    /\ crashed = FALSE
    /\ last_op = Op("new", 0)
    /\ sent = <<>>
    /\ trace = <<>>
    /\ commits = [id \in Ids |-> u32(0)]
    /\ dones = [id \in Ids |-> u32(0)]
    /\ issued = 0
    /\ entered = {}

Init == RegistryNew /\ PopupIdle /\ ThreadsIdle

Next ==
    \/ \E c \in Clients : AddInstance(c)
    \/ \E ti \in LiveObjects : Commit(ti)
    \/ \E s \in Surfaces : Enter(s)
    \/ \E s \in Surfaces : Leave(s)
    \/ Done
    \/ WithFocusedTextInput
    \/ FocusedTextInputSerial
    \/ Focus
    \/ \E ti \in LiveObjects : Destroyed(ti)
    \/ \E s \in Surfaces : SurfaceDestroyed(s)

Spec == Init /\ [][Next]_vars

\* A registry that has been running for a long time: one instance that has
\* issued, and had acknowledged, u32::MAX - 1 commits.
U32MaxMinusOne == <<LimbBase - 1, LimbBase - 2>>

InitLongRun ==
    /\ instances = <<[instance |-> [id |-> 1, client |-> 1],
                      serial |-> U32MaxMinusOne, ready |-> FALSE]>>
    /\ focus = <<>>
    /\ surface_alive = Surfaces
    /\ next_id = 2
    /\ crashed = FALSE
    /\ last_op = Op("new", 0)
    /\ sent = <<>>
    /\ trace = <<>>
    /\ commits = [id \in Ids |-> IF id = 1 THEN U32MaxMinusOne ELSE u32(0)]
    /\ dones = [id \in Ids |-> IF id = 1 THEN U32MaxMinusOne ELSE u32(0)]
    /\ issued = 0
    /\ entered = {1}
    /\ PopupIdle
    /\ ThreadsIdle

SpecLongRun == InitLongRun /\ [][Next]_vars

\* Threads calling into a registry that holds one instance of client 1,
\* after enter(surface 1).
InitThreads ==
    /\ instances = add_instance(<<>>, [id |-> 1, client |-> 1])
    /\ focus = <<1>>
    /\ surface_alive = Surfaces
    /\ next_id = 2
    /\ crashed = FALSE
    /\ last_op = Op("new", 0)
    /\ sent = <<>>
    /\ trace = <<>>
    /\ commits = [id \in Ids |-> u32(0)]
    /\ dones = [id \in Ids |-> u32(0)]
    /\ issued = 0
    /\ entered = {1}
    /\ PopupIdle
    /\ ThreadsIdle

NextThreads ==
    \E t \in Threads :
        \/ \E c \in Clients : BeginAddInstance(t, c)
        \/ \E ti \in LiveObjects : BeginCommit(t, ti)
        \/ \E ti \in LiveObjects : BeginDestroyed(t, ti)
        \/ \E s \in Surfaces : BeginCall(t, "enter", s)
        \/ \E s \in Surfaces : BeginCall(t, "leave", s)
        \/ \E op \in {"done", "focus", "with_focused_text_input",
                       "focused_text_input_serial"} : BeginCall(t, op, 0)
        \/ RelayBefore(t)
        \/ \E op \in Callbacks : RelayCallback(t, op)
        \/ Lock(t)
        \/ SetReady(t)
        \/ AddSerial(t)
        \/ SetFocus(t)
        \/ SendEnter(t)
        \/ DoneRead(t)
        \/ DoneAck(t)
        \/ Body(t)
        \/ Unlock(t)
        \/ RelayAfter(t)

SpecThreads == InitThreads /\ [][NextThreads]_vars

\* The popup surface of an input method.
InitPopup == RegistryNew /\ PopupNew /\ ThreadsIdle

NextPopup ==
    \/ \E x \in Xs, y \in Ys, w \in Ws, h \in Hs : SetRectangle(x, y, w, h)
    \/ Location
    \/ Alive
    \/ RoleDestroyRequest
    \/ RoleDestroyed
    \/ PopupSurfaceDestroyed

SpecPopup == InitPopup /\ [][NextPopup]_vars

\* The requests of the text-input objects, with the registry operations
\* that change what they could touch.
NextRequests ==
    \/ \E c \in Clients : AddInstance(c)
    \/ \E ti \in LiveObjects : Commit(ti)
    \/ \E s \in Surfaces : Enter(s)
    \/ Done
    \/ \E ti \in LiveObjects : Destroyed(ti)
    \/ \E ti \in RemovedObjects : IncrementSerial(ti)
    \/ \E ti \in LiveObjects : Enable(ti)
    \/ \E ti \in LiveObjects : Disable(ti)
    \/ \E ti \in LiveObjects, text \in Texts, cursor \in Cursors, anchor \in Anchors :
          SetSurroundingText(ti, text, cursor, anchor)
    \/ \E ti \in LiveObjects, cause \in CauseValues : SetTextChangeCause(ti, cause)
    \/ \E ti \in LiveObjects, hint \in HintValues, purpose \in PurposeValues :
          SetContentType(ti, hint, purpose)
    \/ \E ti \in LiveObjects, rect \in CursorRects : SetCursorRectangle(ti, rect)
    \/ \E ti \in LiveObjects : DestroyRequest(ti)

SpecRequests == Init /\ [][NextRequests]_vars

\* The life of an instance, with the Enter events recorded.
NextLifecycle ==
    \/ \E c \in Clients : AddInstance(c)
    \/ \E ti \in LiveObjects : Commit(ti)
    \/ \E s \in Surfaces : EnterRecorded(s)
    \/ \E s \in Surfaces : Leave(s)
    \/ Done
    \/ \E ti \in LiveObjects : Destroyed(ti)
    \/ \E s \in Surfaces : SurfaceDestroyed(s)

SpecLifecycle == Init /\ [][NextLifecycle]_vars

\* ------------------------------------------------------------- claims
IsOp(op, name) == op.op = name

\* The entry of the registry for object id (the id is live).
EntryOf(insts, id) ==
    insts[CHOOSE k \in DOMAIN insts : insts[k].instance.id = id]

IdsOf(insts) == {insts[k].instance.id : k \in DOMAIN insts}

FocusAlive == focus # <<>> /\ focus[1] \in surface_alive

\* The instances done() must acknowledge: those of the client of the live
\* focus surface that are ready.
DoneTargets ==
    {instances[k].instance :
        k \in {j \in DOMAIN instances :
                 /\ FocusAlive
                 /\ instances[j].instance.client = SurfaceClient(focus[1])
                 /\ instances[j].ready}}

\* C1 (as stated): done() sends a Done event iff a focused instance is
\* ready, and two consecutive done() calls send at most one Done event in
\* total, counted over all instances.
C1_DoneOncePerCommitTotal ==
    [][IsOp(last_op', "done") =>
         /\ (sent' # <<>>) <=> (DoneTargets # {})
         /\ IsOp(last_op, "done") => Len(sent) + Len(sent') <= 1]_vars

\* C1 (amended): done() sends exactly one Done event to every ready instance
\* of the client of the live focus surface and to no other instance, and
\* clears its ready flag; a ready flag is set only by a Commit on that
\* instance; so a done() that directly follows a done() sends nothing, and
\* no instance receives a second Done without a commit of its own between.
C1_DoneOncePerCommitPerInstance ==
    [][/\ IsOp(last_op', "done") =>
            /\ {e.to : e \in Range(sent')} = DoneTargets
            /\ Len(sent') = Cardinality(DoneTargets)
            /\ \A e \in Range(sent') : e.kind = "Done"
            /\ \A e \in Range(sent') : ~EntryOf(instances', e.to.id).ready
            /\ IsOp(last_op, "done") => sent' = <<>>
       /\ \A id \in IdsOf(instances) \cap IdsOf(instances') :
            (~EntryOf(instances, id).ready /\ EntryOf(instances', id).ready)
               => (IsOp(last_op', "commit") /\ last_op'.arg.id = id)]_vars

\* C1 witness: one done() acknowledged two ready instances of the focused
\* client.
C1_Witness == IsOp(last_op, "done") /\ Len(sent) = 2

\* C2 (as stated): an instance's serial is 0 when it is added, every Commit
\* on it increases its serial by exactly 1, and no other operation changes
\* the serial.
C2_SerialIncreasesByOne ==
    [][/\ \A id \in IdsOf(instances') \ IdsOf(instances) :
            EntryOf(instances', id).serial = u32(0)
       /\ \A id \in IdsOf(instances) \cap IdsOf(instances') :
            IF IsOp(last_op', "commit") /\ last_op'.arg.id = id
            THEN EntryOf(instances', id).serial
                    = count_add_one(EntryOf(instances, id).serial)
            ELSE EntryOf(instances', id).serial = EntryOf(instances, id).serial]_vars

\* C3 (as stated): every instance has received at most as many Done events
\* as it has issued Commit requests, and every Done it receives carries its
\* current serial, which is the number of commits it has issued so far.
C3_DoneCarriesCommitCount ==
    /\ \A id \in Ids : count_leq(dones[id], commits[id])
    /\ \A e \in SentOfKind("Done") :
         /\ e.arg = EntryOf(instances, e.to.id).serial
         /\ e.arg = commits[e.to.id]

\* C4 (as stated): while the focus is the surface of the last enter(S), only
\* instances of the client of S receive Enter, Leave or Done events.
C4_OnlyFocusedClientGetsEvents ==
    focus # <<>> =>
        \A e \in Range(sent) : e.to.client = SurfaceClient(focus[1])

\* C4 (amended): while the focus is the surface of the last enter(S), Enter
\* and Done events go only to instances of the client of S, and the Leave
\* events of leave(T) go only to instances of the client of T.
C4_EventsFollowTheirSurface ==
    focus # <<>> =>
        \A e \in Range(sent) :
            IF e.kind = "Leave"
            THEN IsOp(last_op, "leave") /\ e.arg = last_op.arg
                 /\ e.to.client = SurfaceClient(last_op.arg)
            ELSE e.to.client = SurfaceClient(focus[1])

\* C4 witness: done() acknowledged an instance of the focused client while a
\* ready instance of another client received nothing.
C4_Witness ==
    /\ IsOp(last_op, "done") /\ sent # <<>> /\ focus # <<>>
    /\ \E k \in DOMAIN instances :
         /\ instances[k].ready
         /\ instances[k].instance.client # SurfaceClient(focus[1])

FocusDead == focus # <<>> /\ focus[1] \notin surface_alive

FocusReaders == {"done", "with_focused_text_input", "focused_text_input_serial"}

\* C5: with a focus surface that is not alive, done(),
\* with_focused_text_input and focused_text_input_serial send no event,
\* never invoke the callback, change no instance and return normally.
C5_DeadFocusIsNoFocus ==
    [][(FocusDead /\ last_op'.op \in FocusReaders) =>
         /\ sent' = <<>>
         /\ trace' = <<>>
         /\ instances' = instances
         /\ ~crashed']_vars

\* C5 witness: done() ran with a dead focus surface while an instance of
\* that surface's client was ready.
C5_Witness ==
    /\ IsOp(last_op, "done") /\ FocusDead
    /\ \E k \in DOMAIN instances :
         /\ instances[k].ready
         /\ instances[k].instance.client = SurfaceClient(focus[1])

\* C6: destroying an instance calls relay.deactivate(), then relay.done(),
\* then removes the instance; no relay call follows the removal.
C6_DestroyOrder ==
    IsOp(last_op, "destroyed") =>
        /\ trace = <<Call("relay.deactivate", last_op.arg.id),
                     Call("relay.done", last_op.arg.id),
                     Call("instances.retain", last_op.arg.id)>>
        /\ last_op.arg.id \notin IdsOf(instances)

\* C6 witness: an instance that was focused and ready (one commit, no Done)
\* has been destroyed.
C6_Witness ==
    /\ IsOp(last_op, "destroyed")
    /\ commits[last_op.arg.id] = u32(1) /\ dones[last_op.arg.id] = u32(0)
    /\ FocusAlive /\ SurfaceClient(focus[1]) = last_op.arg.client

\* C7: location() returns (x - w, y + h) of the current rectangle, whatever
\* parent_location and the liveness flags are, changes no state and sends
\* no event; the rectangle (10, 20, 5, 8) gives (5, 28).
C7_LocationIsAboveLeft ==
    [][IsOp(popup_op', "location") =>
         /\ popup_op'.result = <<rectangle.loc.x - rectangle.size.w,
                                 rectangle.loc.y + rectangle.size.h>>
         /\ rectangle = Rect(10, 20, 5, 8) => popup_op'.result = <<5, 28>>
         /\ role_sent' = <<>>
         /\ UNCHANGED <<rectangle, parent_location, popup_surface_alive,
                        alive_tracker>>]_vars

\* C7 witness: location() answered (5, 28) for the rectangle (10, 20, 5, 8)
\* on a popup whose role object is dead and whose parent is not at the origin.
C7_Witness ==
    /\ IsOp(popup_op, "location") /\ popup_op.result = <<5, 28>>
    /\ rectangle = Rect(10, 20, 5, 8)
    /\ ~alive_tracker /\ parent_location # Rect(0, 0, 0, 0)

\* C8: set_rectangle(x, y, w, h) stores (x, y, w, h), sends exactly one
\* TextInputRectangle event with the same four values, also when the
\* rectangle does not change, and location() then answers for the new
\* rectangle; set_rectangle(0, 0, 0, 0) gives location() = (0, 0).
C8_SetRectangleStoresAndSends ==
    IsOp(popup_op, "set_rectangle") =>
        /\ rectangle = popup_op.arg
        /\ Len(role_sent) = 1
        /\ role_sent[1] = [kind |-> "TextInputRectangle",
                           x |-> popup_op.arg.loc.x, y |-> popup_op.arg.loc.y,
                           width |-> popup_op.arg.size.w,
                           height |-> popup_op.arg.size.h]
        /\ location(rectangle) = <<popup_op.arg.loc.x - popup_op.arg.size.w,
                                   popup_op.arg.loc.y + popup_op.arg.size.h>>
        /\ popup_op.arg = Rect(0, 0, 0, 0) => location(rectangle) = <<0, 0>>

\* C8 witness: set_rectangle was called with the rectangle already stored,
\* which was not the zero rectangle, and the event was sent again.
C8_Witness ==
    /\ IsOp(popup_op, "set_rectangle")
    /\ popup_op.prev = popup_op.arg /\ popup_op.arg = Rect(10, 20, 5, 8)
    /\ Len(role_sent) = 1

\* C9: alive() is true iff the surface and the role's tracker are both
\* alive; destroying the role object alone or the surface alone makes it
\* false, and once false it is never true again.
C9_AliveIffBoth ==
    [][/\ IsOp(popup_op', "alive") =>
            (popup_op'.result <=> (popup_surface_alive' /\ alive_tracker'))
       /\ IsOp(popup_op', "role_destroyed") =>
            ~alive(popup_surface_alive', alive_tracker')
       /\ IsOp(popup_op', "surface_destroyed") =>
            ~alive(popup_surface_alive', alive_tracker')
       /\ ~alive(popup_surface_alive, alive_tracker) =>
            ~alive(popup_surface_alive', alive_tracker')]_vars

\* C9 witness: alive() answered false after the role object alone was
\* destroyed, the surface being still alive.
C9_Witness ==
    /\ IsOp(popup_op, "alive") /\ ~popup_op.result
    /\ popup_surface_alive /\ ~alive_tracker

\* The registry an operation leaves when it runs alone on registry s.
SequentialInstances(p, s) ==
    CASE p.op = "add_instance" -> add_instance(s.instances, p.arg)
      [] p.op = "commit" -> increment_serial(s.instances, p.arg, FALSE)
      [] p.op = "done" -> done_instances(s.instances, s.focus, surface_alive)
      [] p.op = "destroyed" -> retain_not(s.instances, p.arg.id)
      [] OTHER -> s.instances

SequentialFocus(p, s) == IF p.op = "enter" THEN <<p.arg>> ELSE s.focus

\* The events and callbacks of an operation that runs alone on registry s.
SequentialOut(p, s) ==
    CASE p.op = "enter" -> enter(s.instances, p.arg)
      [] p.op = "leave" -> leave(s.instances, p.arg)
      [] p.op = "done" -> done_events(s.instances, s.focus, surface_alive, 1)
      [] p.op = "focus" -> <<Call("return", s.focus)>>
      [] p.op = "with_focused_text_input" ->
           focused_callbacks(s.instances, s.focus, surface_alive, 1)
      [] p.op = "focused_text_input_serial" ->
           serial_callbacks(s.instances, s.focus, surface_alive, 1)
      [] OTHER -> <<>>

\* C10: every registry operation is one critical section under the one lock:
\* at most one thread is inside an operation and it holds the lock; when an
\* operation releases the lock the registry and the events it sent are those
\* of the operation run alone on the registry it found when it took the
\* lock; and done() never reads a ready flag set by a commit together with
\* the serial from before that commit.
C10_OperationsAreAtomic ==
    /\ \A t \in Threads : \A u \in Threads :
         (InCritical(t) /\ InCritical(u)) => t = u
    /\ \A t \in Threads : InCritical(t) => lock = <<t>>
    /\ \A t \in Threads :
         pc[t].at = "unlock" =>
            /\ instances = SequentialInstances(pc[t], snap[t])
            /\ focus = SequentialFocus(pc[t], snap[t])
            /\ out[t] = SequentialOut(pc[t], snap[t])
    /\ \A t \in Threads :
         pc[t].at = "ack" =>
            \A r \in Range(obs[t]) : r.ready => r.serial = r.begun

\* C10 witness: done() has read a ready instance inside its critical
\* section while a Commit request on another thread waits for the lock.
C10_Witness ==
    \E t \in Threads : \E u \in Threads :
        /\ pc[t].at = "ack"
        /\ \E r \in Range(obs[t]) : r.ready
        /\ pc[u].op = "commit" /\ pc[u].at = "lock"

\* C11 (as stated): every Commit request on an instance increases that
\* instance's serial by one and marks it ready, and then calls relay.done()
\* exactly once, after the serial bump and never before it.
C11_CommitBumpsThenRelayDone ==
    [][IsOp(last_op', "commit") =>
         /\ EntryOf(instances', last_op'.arg.id).serial
               = count_add_one(EntryOf(instances, last_op'.arg.id).serial)
         /\ EntryOf(instances', last_op'.arg.id).ready
         /\ trace' = <<Call("increment_serial", last_op'.arg.id),
                       Call("relay.done", last_op'.arg.id)>>]_vars

\* The ids whose ready flag a step sets, and those whose flag it clears.
BecomeReady ==
    {id \in IdsOf(instances) \cap IdsOf(instances') :
        ~EntryOf(instances, id).ready /\ EntryOf(instances', id).ready}

LeaveReady ==
    {id \in IdsOf(instances) \cap IdsOf(instances') :
        EntryOf(instances, id).ready /\ ~EntryOf(instances', id).ready}

\* C12 (as stated): an instance becomes Ready only by a Commit issued after
\* it has received a focus Enter, leaves Ready only through done() (or by
\* being destroyed), and receives Done only while it is Ready.
C12_ReadyOnlyAfterEnter ==
    [][/\ \A id \in BecomeReady :
            /\ IsOp(last_op', "commit") /\ last_op'.arg.id = id
            /\ id \in entered
       /\ \A id \in LeaveReady : IsOp(last_op', "done")
       /\ \A e \in Range(sent') :
            e.kind = "Done" => EntryOf(instances, e.to.id).ready]_vars

\* C12 (amended): an instance is added not Ready; a Commit on it makes it
\* Ready whether or not it has received Enter, and nothing else does; it
\* leaves Ready only through a done() that sends it Done (or by being
\* destroyed); and it receives Done only while it is Ready.
C12_InstanceLifecycle ==
    [][/\ \A id \in IdsOf(instances') \ IdsOf(instances) :
            ~EntryOf(instances', id).ready
       /\ \A id \in BecomeReady :
            IsOp(last_op', "commit") /\ last_op'.arg.id = id
       /\ IsOp(last_op', "commit") => EntryOf(instances', last_op'.arg.id).ready
       /\ \A id \in LeaveReady :
            /\ IsOp(last_op', "done")
            /\ \E e \in Range(sent') : e.kind = "Done" /\ e.to.id = id
       /\ \A e \in Range(sent') :
            e.kind = "Done" => EntryOf(instances, e.to.id).ready]_vars

\* C12 witness: a Commit has made Ready an instance that has received no
\* Enter, while another client's surface has the focus.
C12_Witness ==
    /\ IsOp(last_op, "commit")
    /\ last_op.arg.id \notin entered
    /\ EntryOf(instances, last_op.arg.id).ready
    /\ FocusAlive /\ SurfaceClient(focus[1]) # last_op.arg.client

\* Whether the last request carries an enumerant the protocol does not
\* define.
UnrecognizedEnumerant(op) ==
    \/ IsOp(op, "SetTextChangeCause") /\ op.arg.arg \notin 0..1
    \/ /\ IsOp(op, "SetContentType")
       /\ (op.arg.arg[1] \notin 0..1023 \/ op.arg.arg[2] \notin 0..13)

InstancesOf(insts, surface) ==
    SelectSeq(insts, LAMBDA i : i.instance.client = SurfaceClient(surface))

\* The events sent are one event of the kind for each of the instances, in
\* their order, and nothing else.
OneEach(events, kind, insts, arg) ==
    /\ Len(events) = Len(insts)
    /\ \A k \in DOMAIN events :
         /\ events[k].kind = kind
         /\ events[k].to = insts[k].instance
         /\ events[k].arg = arg

\* C14: enter(surface) makes surface the focus, whatever the focus was, so
\* that there is never more than one focus; it sends exactly one Enter to
\* every instance of the client of surface and none to any other instance;
\* and it changes no serial, no ready flag and no membership.
C14_EnterSetsFocusSendsEnter ==
    [][/\ Len(focus') <= 1
       /\ IsOp(last_op', "enter") =>
            /\ focus' = <<last_op'.arg>>
            /\ OneEach(sent', "Enter", InstancesOf(instances, last_op'.arg),
                       last_op'.arg)
            /\ \A e \in Range(sent') :
                 e.to.client = SurfaceClient(last_op'.arg)
            /\ instances' = instances]_vars

\* C14 witness: enter(S) replaced the focus on another client's surface
\* (whose instance is still Ready) and sent Enter to the instance of the
\* client of S only.
C14_Witness ==
    /\ IsOp(last_op, "enter")
    /\ Len(sent) = 1 /\ Len(instances) = 2
    /\ \E k \in DOMAIN instances :
         /\ instances[k].instance.client # SurfaceClient(last_op.arg)
         /\ instances[k].ready
         /\ dones[instances[k].instance.id] = u32(1)

C16_CommitTouchesItsEntryOnly ==
    [][/\ IsOp(last_op', "commit") =>
            /\ focus' = focus
            /\ Len(instances') = Len(instances)
            /\ \A k \in DOMAIN instances :
                 /\ instances'[k].instance = instances[k].instance
                 /\ instances[k].instance # last_op'.arg =>
                      instances'[k] = instances[k]
       /\ IsOp(last_op', "increment_serial") =>
            /\ last_op'.arg \notin LiveObjects
            /\ instances' = instances
            /\ focus' = focus
            /\ ~crashed']_vars

\* C16 witness: a client has bound two instances, has committed on one,
\* and the other still has serial 0 and is not Ready.
C16_Witness ==
    /\ IsOp(last_op, "commit")
    /\ \E k \in DOMAIN instances :
         /\ instances[k].instance # last_op.arg
         /\ instances[k].instance.client = last_op.arg.client
         /\ instances[k].serial = u32(0) /\ ~instances[k].ready
    /\ EntryOf(instances, last_op.arg.id).serial = u32(2)

\* The requests that carry field state or switch the text input on or off.
FieldRequests ==
    {"Enable", "Disable", "SetSurroundingText", "SetTextChangeCause",
     "SetContentType", "SetCursorRectangle"}

C18_FocusUseTestsLiveness ==
    [][FocusDead =>
         /\ last_op'.op \in FocusReaders => (sent' = <<>> /\ trace' = <<>>)
         /\ IsOp(last_op', "focus") => trace' = <<Call("return", <<>>)>>]_vars

\* The ids that have been given out and whose entry has been removed.
RemovedIds == {id \in 1..(next_id - 1) : id \notin IdsOf(instances)}

\* C19: once an instance has been destroyed the registry holds no entry
\* with its identity, then and ever after, and no Enter, Leave or Done is
\* sent to it by any later operation; the removal itself leaves the focus
\* and every other entry (serial, ready flag, position) as they were.
C19_DestroyedInstanceIsGone ==
    [][/\ \A id \in RemovedIds : id \notin IdsOf(instances')
       /\ \A e \in Range(sent') : e.to.id \notin RemovedIds'
       /\ IsOp(last_op', "destroyed") =>
            /\ last_op'.arg.id \in RemovedIds'
            /\ focus' = focus
            /\ instances' = SelectSeq(instances,
                                LAMBDA i : i.instance # last_op'.arg)]_vars

\* C19 witness: after an instance of a client was destroyed, enter() on
\* that client's surface sent Enter to the client's other instance.
C19_Witness ==
    /\ IsOp(last_op, "enter")
    /\ RemovedIds # {}
    /\ Len(sent) = 1
    /\ commits[CHOOSE id \in RemovedIds : TRUE] = u32(1)

\* C20: the Commit and the Destroy handler never hold the registry lock
\* while they are inside their relay call, so that a relay calling back
\* done(), with_focused_text_input or focused_text_input_serial finds a
\* lock it can take; a handler that is about to take the lock does not
\* hold it already, a handler that has returned holds it no more, and the
\* lock is only ever held by a thread inside its critical section.
C20_RelayCalledWithoutLock ==
    \A t \in Threads :
        /\ pc[t].at \in {"relay_before", "relay_after"} => lock # <<t>>
        /\ pc[t].at \in {"idle", "lock"} => lock # <<t>>
        /\ lock = <<t>> => InCritical(t)

\* C20 witness: inside the relay.done() of a Commit the relay called back
\* done(), which took the lock, found the committed instance Ready with the
\* new serial, and cleared the flag.
C20_Witness ==
    \E t \in Threads :
        /\ pc[t].op = "commit" /\ pc[t].at = "relay_after"
        /\ lock = <<>>
        /\ \E r \in Range(obs[t]) :
             /\ r.ready /\ r.instance = pc[t].arg /\ r.serial = u32(1)
             /\ ~EntryOf(instances, r.instance.id).ready

====
